---- MODULE Spec2Model ----
(***************************************************************************)
(* Page-builder content engine of the book editor: the content normaliser, *)
(* the style annotator, the selection manager, the drag/drop engine, the   *)
(* listener manager and the persistence bridge, as one state machine.      *)
(*                                                                         *)
(* Markup (a content string) and the live DOM are both forests of node     *)
(* records.  A DOM node carries the field lst (listeners attached), which  *)
(* markup does not have: Parse adds it, Serialize drops it.                *)
(***************************************************************************)
EXTENDS Integers, Sequences, FiniteSets, TLC

VARIABLES
  dom,            \* children of the content container (contentRef.current)
  content,        \* book.pages[currentPageIndex].content, as markup
  selection,      \* useBuilderSelection state
  dragState,      \* useBuilderDragDrop state
  native,         \* the browser's drag session (source kind, payload, dropped)
  flag,           \* isUpdatingFromBuilderRef.current
  effectPending,  \* the page-content effect is queued to run
  timers,         \* pending setTimeout callbacks, in creation order
  now,            \* Date.now()
  gestures,       \* how many gestures the user has made
  last,           \* what the most recent handler did
  nx, nrs, nr, nr2, \* normaliser harness: input, random draws, two results
  nr3,              \* and the result for the container's saved markup
  rz                \* the selected image: its size and its resize sessions

vars == <<dom, content, selection, dragState, native, flag, effectPending,
          timers, now, gestures, last, nx, nrs, nr, nr2, nr3, rz>>

\* ------------------------------------------------------------------ bounds
MaxElems == 3     \* top-level nodes the container may hold
MaxGestures == 3  \* clicks, hovers, drag starts, drops and panel edits of one run
MaxTime == 1      \* Date.now() ranges over 0..MaxTime
MaxRand == 2      \* Math.random() draws range over 0..MaxRand-1
MaxTimers == 4    \* pending timers
MaxLen == 2       \* top-level nodes of a normaliser input
MaxDowns == 2     \* mousedown events on resize handles

Rand == 0..(MaxRand - 1)
Draws(k) == [1..k -> Rand]   \* the Math.random() results of k calls

\* ------------------------------------------------------------------ nodes
NoId == <<>>

BlockTags == {"div", "p", "h1", "h2", "h3", "h4", "h5", "h6", "ul", "ol", "li",
              "blockquote", "table", "figure"}
SkipTags == {"script", "style", "meta", "link", "title", "br"}

\* A markup node.  tag "#text" is a text node.  txt is the node's own text:
\* "" none, "ws" whitespace only, "words" visible text, "attr" text that spells
\* the identity attribute's name, "placeholder" the empty-canvas sentence.
MNode(tag, id, txt, kids) ==
  [tag |-> tag, id |-> id, txt |-> txt, cls |-> "",
   outline |-> "", offset |-> "", shadow |-> "", opacity |-> "",
   st |-> 0, handles |-> 0, kids |-> kids]

Text(txt) == MNode("#text", NoId, txt, <<>>)

IsElem(n) == n.tag # "#text"
IsTagged(n) == n.id # NoId

RECURSIVE SumSeq(_)
SumSeq(s) == IF s = <<>> THEN 0 ELSE Head(s) + SumSeq(Tail(s))

\* all nodes of a forest in document order (an element before its children)
RECURSIVE Flat(_)
Flat(nodes) ==
  IF nodes = <<>> THEN <<>>
  ELSE <<Head(nodes)>> \o Flat(Head(nodes).kids) \o Flat(Tail(nodes))

SelectSeqTagged(s) == SelectSeq(s, IsTagged)

\* querySelectorAll('[data-element-id]') as the sequence of ids
TaggedIds(nodes) == [i \in 1..Len(SelectSeqTagged(Flat(nodes))) |->
                       SelectSeqTagged(Flat(nodes))[i].id]

\* ------------------------------------------------------------------ identity
generateElementId(prefix, tagName, ts, rnd) == <<prefix, tagName, ts, rnd>>

\* ------------------------------------------------------------------ normaliser
\* a test for the empty string that does not trim
IsEmptyString(c) == c = <<>>

\* content.trim() is empty
IsBlank(c) == \A i \in 1..Len(c) : c[i].tag = "#text" /\ c[i].txt \in {"", "ws"}

\* number of occurrences of the text data-element-id in the string
Mentions(c) ==
  LET f == Flat(c) IN
  Cardinality({i \in 1..Len(f) : IsTagged(f[i])})
  + Cardinality({i \in 1..Len(f) : f[i].txt = "attr"})

hasBuilderElements(c) == Mentions(c) > 0

\* tempDiv.querySelector('div, p, h1, ..., figure')
HasBlock(c) == \E i \in 1..Len(Flat(c)) : Flat(c)[i].tag \in BlockTags

\* applyBuilderStyling: the one modelled effect is that a set, non-full
\* opacity becomes '1'
applyBuilderStyling(n) ==
  [n EXCEPT !.opacity = IF n.opacity \notin {"", "1"} THEN "1" ELSE n.opacity]

\* elements processElementForBuilder tags in the subtree of n
RECURSIVE NTag(_)
NTag(n) ==
  IF ~IsElem(n) \/ n.tag \in SkipTags \/ IsTagged(n) THEN 0
  ELSE 1 + SumSeq([j \in 1..Len(n.kids) |-> NTag(n.kids[j])])

NTagF(c) == SumSeq([j \in 1..Len(c) |-> NTag(c[j])])

RECURSIVE processElementForBuilder(_, _, _, _)
RECURSIVE ProcessChildren(_, _, _, _)
processElementForBuilder(n, ts, rs, base) ==
  IF ~IsElem(n) THEN n
  ELSE IF n.tag \in SkipTags THEN n
  ELSE IF IsTagged(n) THEN n
  ELSE LET tagged == applyBuilderStyling(
                       [n EXCEPT !.id = generateElementId("imported", n.tag, ts, rs[base + 1])])
       IN [tagged EXCEPT !.kids = ProcessChildren(n.kids, ts, rs, base + 1)]

ProcessChildren(nodes, ts, rs, base) ==
  IF nodes = <<>> THEN <<>>
  ELSE <<processElementForBuilder(Head(nodes), ts, rs, base)>>
       \o ProcessChildren(Tail(nodes), ts, rs, base + NTag(Head(nodes)))

Placeholder == MNode("div", NoId, "placeholder", <<>>)

processContentForBuilder(c, ts, rs) ==
  IF IsBlank(c)
  THEN [html |-> <<Placeholder>>, wasAlreadyProcessed |-> FALSE, elementCount |-> 0]
  ELSE IF hasBuilderElements(c)
  THEN [html |-> c, wasAlreadyProcessed |-> TRUE, elementCount |-> Mentions(c)]
  ELSE LET f == Flat(c)
           hasContent == (\E i \in 1..Len(f) : f[i].txt # "")
                         \/ (\E i \in 1..Len(f) : IsElem(f[i]))
       IN IF ~HasBlock(c) /\ hasContent
          THEN [html |-> <<applyBuilderStyling(
                            MNode("div", generateElementId("imported-content", "", ts, rs[1]),
                                  "", c))>>,
                wasAlreadyProcessed |-> FALSE, elementCount |-> 1]
          ELSE LET out == ProcessChildren(c, ts, rs, 0)
               IN [html |-> out, wasAlreadyProcessed |-> FALSE,
                   elementCount |-> Len(TaggedIds(out))]

\* ------------------------------------------------------------------ DOM
\* materialisation of markup: el.innerHTML = html.  Fresh nodes have no listeners.
RECURSIVE Parse(_)
Parse(c) ==
  [i \in 1..Len(c) |->
     [f \in DOMAIN c[i] \cup {"lst"} |->
        IF f = "lst" THEN FALSE
        ELSE IF f = "kids" THEN Parse(c[i].kids)
        ELSE c[i][f]]]

\* el.innerHTML read back: the markup of the children; listeners are not markup
RECURSIVE Serialize(_)
Serialize(nodes) ==
  [i \in 1..Len(nodes) |->
     [f \in DOMAIN nodes[i] \ {"lst"} |->
        IF f = "kids" THEN Serialize(nodes[i].kids) ELSE nodes[i][f]]]

\* paths of all nodes of a forest in document order
RECURSIVE PathsFrom(_, _, _)
PathsFrom(nodes, prefix, i) ==
  IF i > Len(nodes) THEN <<>>
  ELSE <<prefix \o <<i>>>> \o PathsFrom(nodes[i].kids, prefix \o <<i>>, 1)
       \o PathsFrom(nodes, prefix, i + 1)

Paths(nodes) == PathsFrom(nodes, <<>>, 1)

RECURSIVE GetAt(_, _)
GetAt(nodes, p) ==
  IF Len(p) = 1 THEN nodes[p[1]] ELSE GetAt(nodes[p[1]].kids, Tail(p))

\* the forest with the node at p replaced by the nodes of repl (<<>> removes it)
RECURSIVE ReplaceAt(_, _, _)
ReplaceAt(nodes, p, repl) ==
  IF Len(p) = 1
  THEN SubSeq(nodes, 1, p[1] - 1) \o repl \o SubSeq(nodes, p[1] + 1, Len(nodes))
  ELSE [nodes EXCEPT ![p[1]] = [@ EXCEPT !.kids = ReplaceAt(@, Tail(p), repl)]]

TaggedPaths(nodes) == SelectSeq(Paths(nodes), LAMBDA p : IsTagged(GetAt(nodes, p)))

Null == <<>>

\* container.querySelector('[data-element-id="id"]'): first match in document order
QueryById(nodes, id) ==
  LET m == SelectSeq(TaggedPaths(nodes), LAMBDA p : GetAt(nodes, p).id = id)
  IN IF m = <<>> THEN Null ELSE m[1]

\* ---------------------------------------------------------------- geometry
\* Elements stack vertically; a leaf is 2 units high, a parent as high as its
\* children together.  Coordinates are doubled so that midpoints are integers.
RECURSIVE Height(_)
Height(n) ==
  IF n.kids = <<>> THEN 2 ELSE SumSeq([j \in 1..Len(n.kids) |-> Height(n.kids[j])])

RECURSIVE TopOf(_, _)
TopOf(nodes, p) ==
  SumSeq([j \in 1..(p[1] - 1) |-> Height(nodes[j])])
  + (IF Len(p) = 1 THEN 0 ELSE TopOf(nodes[p[1]].kids, Tail(p)))

\* twice (rect.top + rect.height / 2)
Middle2(nodes, p) == 2 * TopOf(nodes, p) + Height(GetAt(nodes, p))

TotalHeight(nodes) == SumSeq([j \in 1..Len(nodes) |-> Height(nodes[j])])

Abs(x) == IF x < 0 THEN -x ELSE x

\* ---------------------------------------------------------- style annotator
RECURSIVE HasImg(_)
HasImg(n) == n.tag = "img" \/ \E j \in 1..Len(n.kids) : HasImg(n.kids[j])

\* element.querySelectorAll('.image-resize-handle').forEach(remove)
RECURSIVE removeImageResizeHandles(_)
removeImageResizeHandles(n) ==
  [n EXCEPT !.handles = 0,
            !.kids = [j \in 1..Len(n.kids) |-> removeImageResizeHandles(n.kids[j])]]

addImageResizeHandles(n) == [removeImageResizeHandles(n) EXCEPT !.handles = 4]

applySelectionStyling(n) ==
  LET s == [n EXCEPT !.outline = "solid", !.offset = "2px", !.shadow = "glow"]
  IN IF HasImg(n) THEN addImageResizeHandles(s) ELSE s

removeSelectionStyling(n) ==
  LET s == [n EXCEPT !.outline = "none", !.shadow = "none", !.offset = "0px"]
  IN IF HasImg(n) THEN removeImageResizeHandles(s) ELSE s

\* a clearAllSelections that clears nothing
clearNoSelections(nodes) == nodes

RECURSIVE clearAllSelections(_)
clearAllSelections(nodes) ==
  [i \in 1..Len(nodes) |->
     LET n == IF IsTagged(nodes[i]) THEN removeSelectionStyling(nodes[i]) ELSE nodes[i]
     IN [n EXCEPT !.kids = clearAllSelections(n.kids)]]

\* ----------------------------------------------------------- listener manager
ManualTags == {"div", "p", "h1", "h2", "h3", "h4", "h5", "h6", "blockquote",
               "ul", "ol", "li", "table", "figure", "img"}

\* htmlElement.textContent.trim() is not empty
RECURSIVE HasText(_)
HasText(n) == n.txt \notin {"", "ws"} \/ \E j \in 1..Len(n.kids) : HasText(n.kids[j])

\* a scan that tags every untagged element
TagsAnyElement(n) == IsElem(n) /\ ~IsTagged(n)

\* processExistingDOMContent tags n itself (n has no tagged ancestor)
GetsManualId(n) ==
  /\ IsElem(n) /\ n.tag \notin SkipTags /\ ~IsTagged(n)
  /\ n.tag \in ManualTags
  /\ (HasText(n) \/ n.tag = "img")

\* elements processExistingDOMContent tags in the subtree of n
RECURSIVE NManual(_)
NManual(n) ==
  IF IsTagged(n) THEN 0
  ELSE IF GetsManualId(n) THEN 1
  ELSE SumSeq([j \in 1..Len(n.kids) |-> NManual(n.kids[j])])

NManualF(nodes) == SumSeq([j \in 1..Len(nodes) |-> NManual(nodes[j])])

\* processExistingDOMContent: the container's children after the scan.  The
\* descendants of a tagged element (also of one tagged by this scan) are skipped.
RECURSIVE processExistingDOMContent(_, _, _, _)
processExistingDOMContent(nodes, ts, rs, base) ==
  IF nodes = <<>> THEN <<>>
  ELSE LET n == Head(nodes)
           m == IF IsTagged(n) THEN n
                ELSE IF GetsManualId(n)
                THEN [n EXCEPT !.id = generateElementId("manual", n.tag, ts, rs[base + 1])]
                ELSE [n EXCEPT !.kids = processExistingDOMContent(n.kids, ts, rs, base)]
       IN <<m>> \o processExistingDOMContent(Tail(nodes), ts, rs, base + NManual(n))

\* a deep clone: the copy and its descendants have no listeners
RECURSIVE CloneNode(_)
CloneNode(n) ==
  [n EXCEPT !.lst = FALSE, !.kids = [j \in 1..Len(n.kids) |-> CloneNode(n.kids[j])]]

\* removeAllEventListeners: every tagged element is replaced by its deep clone.
\* A tagged element inside a replaced one is swapped in the detached original,
\* so the live tree keeps the outer clone.
RECURSIVE removeAllEventListeners(_)
removeAllEventListeners(nodes) ==
  [i \in 1..Len(nodes) |->
     IF IsTagged(nodes[i]) THEN CloneNode(nodes[i])
     ELSE [nodes[i] EXCEPT !.kids = removeAllEventListeners(nodes[i].kids)]]

\* an attach that adds no listener
attachNothing(nodes) == nodes

RECURSIVE attachEventListeners(_)
attachEventListeners(nodes) ==
  [i \in 1..Len(nodes) |->
     LET n == IF IsTagged(nodes[i])
              THEN [applyBuilderStyling(nodes[i]) EXCEPT !.lst = TRUE]
              ELSE nodes[i]
     IN [n EXCEPT !.kids = attachEventListeners(n.kids)]]

\* a refresh that attaches nothing
refreshNothing(nodes, ts, rs) == nodes

refreshListeners(nodes, ts, rs) ==
  attachEventListeners(removeAllEventListeners(processExistingDOMContent(nodes, ts, rs, 0)))

\* --------------------------------------------------------- persistence bridge
\* the loop of the save paths over the clone's tagged elements:
\* style.removeProperty('outline' / 'outline-offset' / 'box-shadow')
RECURSIVE StripSelectionProps(_)
StripSelectionProps(nodes) ==
  [i \in 1..Len(nodes) |->
     LET n == IF IsTagged(nodes[i])
              THEN [nodes[i] EXCEPT !.outline = "", !.offset = "", !.shadow = ""]
              ELSE nodes[i]
     IN [n EXCEPT !.kids = StripSelectionProps(n.kids)]]

\* a save whose clone loses the identity attributes
RECURSIVE StripIds(_)
StripIds(nodes) ==
  [i \in 1..Len(nodes) |-> [nodes[i] EXCEPT !.id = NoId, !.kids = StripIds(@)]]

saveWithoutIds(nodes) == Serialize(StripIds(nodes))

\* a save that strips the container itself instead of a clone of it
StrippedContainer(nodes) == StripSelectionProps(nodes)

\* the container after saveCleanContent / updateContentFromDOM: both work on
\* tempContainer = contentRef.current.cloneNode(true)
ContainerAfterSave(nodes) == nodes

\* the content string saveCleanContent hands to onContentUpdate
saveCleanContent(nodes) == Serialize(StripSelectionProps(nodes))

\* the content string updateContentFromDOM hands to updateContent
updateContentFromDOM(nodes) == Serialize(StripSelectionProps(nodes))

\* the content string updateElementStyle hands to onSave
StyleSaveContent(nodes) == Serialize(StripSelectionProps(nodes))

\* ------------------------------------------------------------ drag/drop engine
Infinity == 1000000

\* the drag payload (text/plain).  fmt is the shape of the string: "empty" '',
\* "existing" `existing:${id}`, "plain" any other text, "json" a string that
\* starts with '{', holds "type" and "image" and parses, "badjson" one that does
\* not parse, "padjson" JSON text after leading white space.
Payload(fmt, id, type, url) == [fmt |-> fmt, id |-> id, type |-> type, url |-> url]
EmptyPayload == Payload("empty", NoId, "", "")

\* ELEMENT_LIBRARY: the template of an element type, <<>> for an unknown type
LibraryTemplate(type) ==
  IF type = "paragraph" THEN <<MNode("p", NoId, "words", <<>>)>>
  ELSE IF type = "quote"
  THEN <<MNode("blockquote", NoId, "words", <<MNode("cite", NoId, "words", <<>>)>>)>>
  ELSE <<>>

Indicator ==
  [Parse(<<MNode("div", NoId, "", <<>>)>>)[1] EXCEPT !.cls = "drop-indicator"]

\* a cleanup that removes no indicator
KeepIndicators(nodes) == nodes

\* querySelectorAll('.drop-indicator').forEach(remove)
RECURSIVE RemoveIndicators(_)
RemoveIndicators(nodes) ==
  IF nodes = <<>> THEN <<>>
  ELSE IF Head(nodes).cls = "drop-indicator" THEN RemoveIndicators(Tail(nodes))
  ELSE <<[Head(nodes) EXCEPT !.kids = RemoveIndicators(@)]>> \o RemoveIndicators(Tail(nodes))

\* a scan in which a later element at the same distance replaces the earlier one
RECURSIVE ScanInsertLastWins(_, _, _, _, _)
ScanInsertLastWins(nodes, ps, y, minDistance, insertBefore) ==
  IF ps = <<>> THEN insertBefore
  ELSE LET elementMiddle2 == Middle2(nodes, Head(ps))
           distance == Abs(2 * y - elementMiddle2)
       IN IF distance <= minDistance
          THEN ScanInsertLastWins(nodes, Tail(ps), y, distance,
                                  IF 2 * y < elementMiddle2 THEN Head(ps) ELSE Null)
          ELSE ScanInsertLastWins(nodes, Tail(ps), y, minDistance, insertBefore)

\* allElements.forEach(...) of findInsertPosition over the remaining elements
RECURSIVE ScanInsert(_, _, _, _, _)
ScanInsert(nodes, ps, y, minDistance, insertBefore) ==
  IF ps = <<>> THEN insertBefore
  ELSE LET elementMiddle2 == Middle2(nodes, Head(ps))
           distance == Abs(2 * y - elementMiddle2)
       IN IF distance < minDistance
          THEN ScanInsert(nodes, Tail(ps), y, distance,
                          IF 2 * y < elementMiddle2 THEN Head(ps) ELSE Null)
          ELSE ScanInsert(nodes, Tail(ps), y, minDistance, insertBefore)

\* the path of the element to insert before, Null for the end of the container
findInsertPosition(nodes, y) == ScanInsert(nodes, TaggedPaths(nodes), y, Infinity, Null)

\* element.nextElementSibling
NextElementSibling(nodes, p) ==
  LET sibs == IF Len(p) = 1 THEN nodes ELSE GetAt(nodes, SubSeq(p, 1, Len(p) - 1)).kids
      k == p[Len(p)]
      later == {j \in (k + 1)..Len(sibs) : IsElem(sibs[j])}
  IN IF later = {} THEN Null
     ELSE SubSeq(p, 1, Len(p) - 1) \o <<CHOOSE j \in later : \A i \in later : j <= i>>

\* container.insertBefore(node, ref) raises NotFoundError unless ref is a child
\* of the container; after element.remove() the element itself is not one
InsertRaises(el, insertBefore) ==
  insertBefore # Null /\ (Len(insertBefore) # 1 \/ insertBefore = el)

\* reorderElement from element.style.opacity = '1' to the splice
MoveElement(nodes, el, insertBefore) ==
  LET e0 == GetAt(nodes, el)
      e1 == [e0 EXCEPT !.opacity = "1", !.outline = "", !.offset = "", !.shadow = ""]
      removed == ReplaceAt(nodes, el, <<>>)
  IN IF InsertRaises(el, insertBefore)
     THEN [dom |-> removed, branch |-> "raised", threw |-> TRUE]
     ELSE LET k == IF insertBefore = Null THEN Len(removed) + 1
                   ELSE IF Len(el) = 1 /\ el[1] < insertBefore[1]
                   THEN insertBefore[1] - 1 ELSE insertBefore[1]
          IN [dom |-> SubSeq(removed, 1, k - 1) \o <<applyBuilderStyling(e1)>>
                      \o SubSeq(removed, k, Len(removed)),
              branch |-> "moved", threw |-> FALSE]

\* a reorderElement that lacks the same-position test
reorderElementWithoutPositionTest(nodes, id, insertBefore) ==
  LET el == QueryById(nodes, id) IN
  IF el = Null THEN [dom |-> nodes, branch |-> "missing", threw |-> FALSE]
  ELSE MoveElement(nodes, el, insertBefore)

\* a reorderElement that lacks the test for a missing element and reads
\* nextElementSibling of null
reorderElementWithoutElementTest(nodes, id, insertBefore) ==
  LET el == QueryById(nodes, id) IN
  IF el = Null THEN [dom |-> nodes, branch |-> "raised", threw |-> TRUE]
  ELSE IF insertBefore = NextElementSibling(nodes, el)
  THEN [dom |-> nodes, branch |-> "same-position", threw |-> FALSE]
  ELSE MoveElement(nodes, el, insertBefore)

\* reorderElement up to the splice: the container's children afterwards
reorderElement(nodes, id, insertBefore) ==
  LET el == QueryById(nodes, id) IN
  IF el = Null THEN [dom |-> nodes, branch |-> "missing", threw |-> FALSE]
  ELSE IF insertBefore = NextElementSibling(nodes, el)
  THEN [dom |-> nodes, branch |-> "same-position", threw |-> FALSE]
  ELSE MoveElement(nodes, el, insertBefore)

TextStartBuilding == "Start Building Your Layout"

\* a canvas that is never taken for empty
NeverReplacesCanvas(nodes) == FALSE

\* the placeholder test of createNewElement / createImageElement
ReplacesCanvas(nodes) ==
  \/ TaggedPaths(nodes) = <<>>
  \/ \E i \in 1..Len(Flat(nodes)) : Flat(nodes)[i].txt = TextStartBuilding

\* createNewElement up to the append: the container's children, <<>> on failure
createNewElement(nodes, type, ts, r) ==
  LET template == LibraryTemplate(type) IN
  IF template = <<>> THEN [ok |-> FALSE, dom |-> nodes, id |-> NoId]
  ELSE LET uniqueId == generateElementId("element", "", ts, r)
           newElement == applyBuilderStyling([Parse(template)[1] EXCEPT !.id = uniqueId])
           base == IF ReplacesCanvas(nodes) THEN <<>> ELSE nodes
       IN [ok |-> TRUE, dom |-> Append(base, newElement), id |-> uniqueId]

createImageElement(nodes, ts, r) ==
  LET uniqueId == generateElementId("element", "", ts, r)
      figure == applyBuilderStyling(
                  Parse(<<MNode("figure", uniqueId, "",
                                <<MNode("img", NoId, "", <<>>),
                                  MNode("figcaption", NoId, "words", <<>>)>>)>>)[1])
      base == IF ReplacesCanvas(nodes) THEN <<>> ELSE nodes
  IN [ok |-> TRUE, dom |-> Append(base, figure), id |-> uniqueId]

\* handleDragEnd's sweep: indicators removed, every tagged element fully opaque
RECURSIVE RestoreOpacity(_)
RestoreOpacity(nodes) ==
  [i \in 1..Len(nodes) |->
     LET n == IF IsTagged(nodes[i])
              THEN applyBuilderStyling([nodes[i] EXCEPT !.opacity = "1"])
              ELSE nodes[i]
     IN [n EXCEPT !.kids = RestoreOpacity(n.kids)]]

\* ------------------------------------------------------------------- state
\* the rendered size of a dropped image, and the smallest size a resize gives
ImageWidth == 60
ImageHeight == 40
MinSize == 50

\* the selected image before any resize: the rendered size of its img, the
\* figure without a width of its own, no session, no button held
NoResize ==
  [w |-> ImageWidth, h |-> ImageHeight, figw |-> 0, sessions |-> <<>>, pressed |-> {},
   downs |-> 0, userSelect |-> "", emitted |-> 0, saved |-> <<>>, x |-> 0, y |-> 0]

NoSelection == [selectedElementId |-> NoId, selectedElement |-> "null"]
NoDrag == [draggedElementType |-> "", draggedElementId |-> NoId]
NoNative == [kind |-> "none", data |-> EmptyPayload, dropped |-> FALSE]

Timer(kind, delay, id, html) ==
  [kind |-> kind, delay |-> delay, id |-> id, html |-> html, eff |-> FALSE]

\* what a handler did: its name, the branch it took, whether it raised, and
\* how many times it called onContentUpdate/onSave, onRefreshListeners and
\* onElementSelect before returning
Did(op, branch, threw, saves, refreshes, selects) ==
  [op |-> op, branch |-> branch, threw |-> threw, saves |-> saves,
   refreshes |-> refreshes, selects |-> selects]

\* the default template the page effect uses for empty content
DefaultTemplate ==
  <<MNode("h1", <<"default-title">>, "words", <<>>),
    MNode("p", <<"default-paragraph">>, "words", <<>>)>>

\* page contents a session may open with: an empty page, a one-paragraph
\* import, and a page saved by the builder (a block with a nested paragraph,
\* both tagged) to which a paragraph was added in the text editor
InitContents ==
  { <<>>,
    <<MNode("p", NoId, "words", <<>>)>>,
    <<MNode("div", <<"saved-block">>, "",
            <<MNode("p", <<"saved-paragraph">>, "words", <<>>)>>),
      MNode("p", NoId, "words", <<>>)>> }

LibraryTypes == {"paragraph"}

\* the page-content effect's input and the draws its normaliser call needs
ContentToProcess(c) == IF IsBlank(c) THEN DefaultTemplate ELSE c
NeedDraws(c) == IF NTagF(c) = 0 THEN 1 ELSE NTagF(c)

\* a live node reference does not survive the replacement of the nodes
Detach(sel) ==
  IF sel.selectedElement = "live" THEN [sel EXCEPT !.selectedElement = "stale"] ELSE sel

\* timers in creation order plus those of this handler; they wait for the
\* page effect of a persist that is still queued
Schedule(ts, new, pending) ==
  ts \o [i \in 1..Len(new) |-> [new[i] EXCEPT !.eff = pending]]

\* updateContent: setPageContent, the flag, onSave, the 50 ms reset
ResetTimer == Timer("reset", 50, NoId, <<>>)

Init ==
  /\ content \in InitContents
  /\ \E rs \in Draws(NeedDraws(ContentToProcess(content))) :
       timers = << Timer("materialize", 100,  NoId,
                         processContentForBuilder(ContentToProcess(content), 0, rs).html),
                   Timer("scan", 200, NoId, <<>>) >>
  /\ dom = <<>>
  /\ selection = NoSelection
  /\ dragState = NoDrag
  /\ native = NoNative
  /\ flag = FALSE
  /\ effectPending = FALSE
  /\ now = 0
  /\ gestures = 0
  /\ last = Did("mount", "", FALSE, 0, 0, 0)
  /\ nx = <<>> /\ nrs = <<>> /\ nr = <<>> /\ nr2 = <<>> /\ nr3 = <<>>
  /\ rz = NoResize

norm == <<nx, nrs, nr, nr2, nr3, rz>>

\* No drag session: the browser delivers mouse events to the page.  During a
\* drag it delivers drag events only, and after a drop the dragend follows in
\* the same task.
NativeIdle == native.kind = "none"
Dropped == native.dropped

\* the user starts one more gesture
Gesture == gestures < MaxGestures /\ gestures' = gestures + 1

\* what Date.now() may return to a handler: the clock has not gone back, and
\* at most one more millisecond has passed.  The clock is read for ids only.
Clock == {t \in {now, now + 1} : t <= MaxTime}

\* ---------------------------------------------------------------- selection
\* selectElement: the container and the selection state afterwards
selectElement(nodes, id) ==
  LET cleared == clearAllSelections(nodes)
      el == IF id = NoId THEN Null ELSE QueryById(cleared, id)
  IN IF el = Null
     THEN [dom |-> cleared,
           selection |-> [selectedElementId |-> id, selectedElement |-> "null"]]
     ELSE [dom |-> ReplaceAt(cleared, el, <<applySelectionStyling(GetAt(cleared, el))>>),
           selection |-> [selectedElementId |-> id, selectedElement |-> "live"]]

\* the tagged elements on the path to p that have listeners, outermost first
ListeningAncestors(nodes, p) ==
  SelectSeq([k \in 1..Len(p) |-> SubSeq(p, 1, k)],
            LAMBDA q : IsTagged(GetAt(nodes, q)) /\ GetAt(nodes, q).lst)

\* a click on the node at p.  The capturing listener of the outermost listening
\* element runs and stops propagation; without any, the canvas handler sees a
\* click inside a tagged element and does nothing, or clears the selection.
Click(p) ==
  /\ NativeIdle /\ Gesture
  /\ p \in {Paths(dom)[i] : i \in 1..Len(Paths(dom))}
  /\ IsElem(GetAt(dom, p))
  /\ LET ls == ListeningAncestors(dom, p)
         inTagged == \E k \in 1..Len(p) : IsTagged(GetAt(dom, SubSeq(p, 1, k)))
         r == IF ls # <<>> THEN selectElement(dom, GetAt(dom, ls[1]).id)
              ELSE IF inTagged THEN [dom |-> dom, selection |-> selection]
              ELSE selectElement(dom, NoId)
     IN /\ dom' = r.dom
        /\ selection' = r.selection
        /\ last' = Did("click", IF ls # <<>> THEN "element" ELSE "canvas", FALSE, 0, 0,
                       IF ls # <<>> THEN 1 ELSE 0)
  /\ UNCHANGED <<content, dragState, native, flag, effectPending, timers, now, norm>>

\* handleCanvasClick on empty space: clearSelection
ClickCanvas ==
  /\ NativeIdle /\ Gesture
  /\ LET r == selectElement(dom, NoId)
     IN dom' = r.dom /\ selection' = r.selection
  /\ last' = Did("click", "empty", FALSE, 0, 0, 0)
  /\ UNCHANGED <<content, dragState, native, flag, effectPending, timers, now, norm>>

\* a mouseenter handler that does not look at the outline
hoverWithoutTest(n) == [n EXCEPT !.outline = "dashed", !.offset = "1px"]

\* handleMouseEnter of attachEventListeners
handleMouseEnter(n) ==
  IF n.outline # "solid" THEN [n EXCEPT !.outline = "dashed", !.offset = "1px"] ELSE n

\* handleMouseLeave of attachEventListeners
handleMouseLeave(n) ==
  IF n.outline = "dashed" THEN [n EXCEPT !.outline = "none"] ELSE n

\* the pointer enters the listening element at p
MouseEnter(p) ==
  /\ NativeIdle /\ Gesture
  /\ p \in {TaggedPaths(dom)[i] : i \in 1..Len(TaggedPaths(dom))}
  /\ GetAt(dom, p).lst
  /\ dom' = ReplaceAt(dom, p, <<handleMouseEnter(GetAt(dom, p))>>)
  /\ last' = Did("mouseenter", IF GetAt(dom, p).outline = "solid" THEN "selected" ELSE "",
                 FALSE, 0, 0, 0)
  /\ UNCHANGED <<content, selection, dragState, native, flag, effectPending, timers, now, norm>>

\* the pointer leaves the listening element at p, which shows the hover outline
MouseLeave(p) ==
  /\ NativeIdle
  /\ p \in {TaggedPaths(dom)[i] : i \in 1..Len(TaggedPaths(dom))}
  /\ GetAt(dom, p).lst
  /\ GetAt(dom, p).outline = "dashed"
  /\ dom' = ReplaceAt(dom, p, <<handleMouseLeave(GetAt(dom, p))>>)
  /\ last' = Did("mouseleave", "", FALSE, 0, 0, 0)
  /\ UNCHANGED <<content, selection, dragState, native, flag, effectPending, timers, now, gestures, norm>>

\* ---------------------------------------------------------------- drag starts

\* handleDragStart: a drag from the element library
LibraryDragStart(type) ==
  /\ NativeIdle /\ Gesture
  /\ native' = [kind |-> "library", data |-> Payload("plain", NoId, type, ""),
                dropped |-> FALSE]
  /\ dragState' = [dragState EXCEPT !.draggedElementType = type]
  /\ last' = Did("dragstart", "library", FALSE, 0, 0, 0)
  /\ UNCHANGED <<dom, content, selection, flag, effectPending, timers, now, norm>>

\* handleImageDragStart: a drag from the images panel (JSON.stringify payload)
ImageDragStart ==
  /\ NativeIdle /\ Gesture
  /\ native' = [kind |-> "image", data |-> Payload("json", NoId, "image", "url"),
                dropped |-> FALSE]
  /\ last' = Did("dragstart", "image", FALSE, 0, 0, 0)
  /\ UNCHANGED <<dom, content, selection, dragState, flag, effectPending, timers, now, norm>>

\* element.style.opacity = '0.7' on the first element carrying each id of ids
RECURSIVE Dim(_, _)
Dim(nodes, ids) ==
  IF ids = <<>> THEN nodes
  ELSE LET el == QueryById(nodes, Head(ids))
       IN Dim(IF el = Null THEN nodes
              ELSE ReplaceAt(nodes, el, <<[GetAt(nodes, el) EXCEPT !.opacity = "0.7"]>>),
              Tail(ids))

\* a drag-start handler without the guard: it skips setData when there is no
\* dataTransfer, but still sets the drag state and dims the element
dragStartWithoutGuard(st, hasDataTransfer, elementId) ==
  [dom |-> Dim(st.dom, <<elementId>>),
   dragState |-> [st.dragState EXCEPT !.draggedElementId = elementId],
   data |-> IF hasDataTransfer THEN Payload("existing", elementId, "", "") ELSE st.data]

\* handleExistingElementDragStart(e, elementId) on the container, the drag
\* state and the event's payload
handleExistingElementDragStart(st, hasDataTransfer, elementId) ==
  IF ~hasDataTransfer \/ elementId = NoId THEN st
  ELSE [dom |-> Dim(st.dom, <<elementId>>),
        dragState |-> [st.dragState EXCEPT !.draggedElementId = elementId],
        data |-> Payload("existing", elementId, "", "")]

\* the dragstart listeners of the elements with the ids, the last id first
RECURSIVE BubbleDragStart(_, _, _)
BubbleDragStart(st, hasDataTransfer, ids) ==
  IF ids = <<>> THEN st
  ELSE BubbleDragStart(handleExistingElementDragStart(st, hasDataTransfer, ids[Len(ids)]),
                       hasDataTransfer, SubSeq(ids, 1, Len(ids) - 1))

\* A native dragstart on the draggable element at p.  The event bubbles: the
\* dragstart listener of every listening tagged ancestor runs after the
\* element's own, each calling handleExistingElementDragStart with its id.
CanvasDragStart(p) ==
  /\ NativeIdle /\ Gesture
  /\ p \in {TaggedPaths(dom)[i] : i \in 1..Len(TaggedPaths(dom))}
  /\ GetAt(dom, p).lst
  /\ LET ls == ListeningAncestors(dom, p)
         ids == [k \in 1..Len(ls) |-> GetAt(dom, ls[k]).id]
         res == BubbleDragStart([dom |-> dom, dragState |-> dragState, data |-> EmptyPayload],
                                TRUE, ids)
     IN /\ native' = [kind |-> "canvas", data |-> res.data, dropped |-> FALSE]
        /\ dragState' = res.dragState
        /\ dom' = res.dom
  /\ last' = Did("dragstart", "canvas", FALSE, 0, 0, 0)
  /\ UNCHANGED <<content, selection, flag, effectPending, timers, now, norm>>

\* A dragstart event that a script dispatches on the element at p: it has no
\* dataTransfer and starts no drag session of the browser.
SyntheticDragStart(p) ==
  /\ NativeIdle /\ Gesture
  /\ p \in {TaggedPaths(dom)[i] : i \in 1..Len(TaggedPaths(dom))}
  /\ GetAt(dom, p).lst
  /\ LET ls == ListeningAncestors(dom, p)
         ids == [k \in 1..Len(ls) |-> GetAt(dom, ls[k]).id]
         res == BubbleDragStart([dom |-> dom, dragState |-> dragState, data |-> EmptyPayload],
                                FALSE, ids)
     IN /\ dragState' = res.dragState
        /\ dom' = res.dom
        /\ last' = Did("dragstart", IF res.data = EmptyPayload THEN "invalid" ELSE "payload",
                       FALSE, 0, 0, 0)
  /\ UNCHANGED <<content, selection, native, flag, effectPending, timers, now, norm>>

\* Text dragged onto the canvas from elsewhere: no handler of the builder runs
\* at its start, and nothing reads its payload before the drop.
ForeignPayloads ==
  { EmptyPayload,
    Payload("plain", NoId, "no-such-type", ""),
    Payload("badjson", NoId, "image", ""),
    Payload("json", NoId, "video", "url"),
    Payload("json", NoId, "image", ""),
    Payload("padjson", NoId, "image", "url"),
    Payload("existing", <<"gone">>, "", "") }

ForeignDragStart ==
  /\ NativeIdle /\ Gesture
  /\ native' = [kind |-> "foreign", data |-> EmptyPayload, dropped |-> FALSE]
  /\ last' = Did("dragstart", "foreign", FALSE, 0, 0, 0)
  /\ UNCHANGED <<dom, content, selection, dragState, flag, effectPending, timers, now, norm>>

\* ------------------------------------------------------------------ dragover
Pointer(nodes) == 0..TotalHeight(nodes)

handleDragOver(y) ==
  /\ native.kind # "none" /\ ~native.dropped
  /\ LET nodes0 == RemoveIndicators(dom)
         insertBefore == findInsertPosition(nodes0, y)
     IN /\ y \in Pointer(nodes0)
        /\ IF dragState.draggedElementId = NoId
           THEN /\ dom' = dom
                /\ last' = Did("dragover", "copy", FALSE, 0, 0, 0)
           ELSE IF insertBefore # Null /\ Len(insertBefore) # 1
           THEN /\ dom' = nodes0
                /\ last' = Did("dragover", "raised", TRUE, 0, 0, 0)
           ELSE /\ dom' = IF insertBefore = Null THEN Append(nodes0, Indicator)
                          ELSE SubSeq(nodes0, 1, insertBefore[1] - 1) \o <<Indicator>>
                               \o SubSeq(nodes0, insertBefore[1], Len(nodes0))
                /\ last' = Did("dragover", "move", FALSE, 0, 0, 0)
  /\ UNCHANGED <<content, selection, dragState, native, flag, effectPending, timers, now, gestures, norm>>

\* ---------------------------------------------------------------------- drop
\* data.startsWith('{') && data.includes('"type"') && data.includes('"image"')
LooksLikeImageJson(data) == data.fmt \in {"json", "badjson"}

\* JSON.parse(data): white space around the value is allowed; ok is FALSE when
\* it throws
JsonParse(data) ==
  IF data.fmt \in {"json", "padjson"}
  THEN [ok |-> TRUE, type |-> data.type, imageUrl |-> data.url]
  ELSE [ok |-> FALSE, type |-> "", imageUrl |-> ""]

\* whether handleDrop takes the image branch: the payload passes the string
\* test, parses, and has type "image" and a non-empty imageUrl
IsImageDrop(data) ==
  /\ LooksLikeImageJson(data)
  /\ JsonParse(data).ok /\ JsonParse(data).type = "image" /\ JsonParse(data).imageUrl # ""

\* the element-type string createNewElement looks up: the raw payload text,
\* which for a JSON-looking payload is no library id
RawType(data) == IF data.fmt = "plain" THEN data.type ELSE "{...}"

\* handleDrop up to its last statement: the container, the handler's record,
\* the content it saved (<<>> or one string) and the timers it started
handleDropResult(nodes, data, y, ts, r) ==
  LET nodes0 == RemoveIndicators(nodes) IN
  IF data.fmt = "existing"
  THEN IF data.id = NoId
       THEN [dom |-> nodes0, did |-> Did("drop", "empty-id", FALSE, 0, 0, 0),
             saved |-> <<>>, started |-> <<>>]
       ELSE LET res == reorderElement(nodes0, data.id, findInsertPosition(nodes0, y))
            IN IF res.branch = "moved"
               THEN [dom |-> ContainerAfterSave(res.dom), did |-> Did("drop", "moved", FALSE, 1, 1, 0),
                     saved |-> <<saveCleanContent(res.dom)>>,
                     started |-> <<ResetTimer, Timer("select", 50, data.id, <<>>)>>]
               ELSE [dom |-> res.dom, did |-> Did("drop", res.branch, res.threw, 0, 0, 0),
                     saved |-> <<>>, started |-> <<>>]
  ELSE IF data.fmt = "empty"
  THEN [dom |-> nodes0, did |-> Did("drop", "empty", FALSE, 0, 0, 0),
        saved |-> <<>>, started |-> <<>>]
  ELSE LET res == IF IsImageDrop(data)
                  THEN createImageElement(nodes0, ts, r)
                  ELSE createNewElement(nodes0, RawType(data), ts, r)
           branch == IF IsImageDrop(data) THEN "image"
                     ELSE IF res.ok THEN "library" ELSE "unknown-type"
       IN IF res.ok
          THEN [dom |-> ContainerAfterSave(res.dom), did |-> Did("drop", branch, FALSE, 1, 0, 0),
                saved |-> <<saveCleanContent(res.dom)>>,
                started |-> <<ResetTimer, Timer("refresh-select", 50, res.id, <<>>)>>]
          ELSE [dom |-> nodes0, did |-> Did("drop", branch, FALSE, 0, 0, 0),
                saved |-> <<>>, started |-> <<>>]

\* the drop event on the canvas.  A reorder refreshes the listeners before it
\* returns; an exception leaves the handler before setDragState.  The session
\* keeps the payload that getData('text/plain') returned.
handleDrop(y) ==
  /\ native.kind # "none" /\ ~native.dropped /\ Gesture
  /\ y \in Pointer(RemoveIndicators(dom))
  /\ \E r \in Rand, t \in Clock,
        data \in IF native.kind = "foreign" THEN ForeignPayloads ELSE {native.data} :
       LET res == handleDropResult(dom, data, y, t, r)
           pending == effectPending \/ (res.saved # <<>> /\ res.saved[1] # content)
       IN /\ Len(res.dom) <= MaxElems
          /\ Len(timers) + Len(res.started) <= MaxTimers
          /\ \E rs \in Draws(NManualF(res.dom)) :
               dom' = IF res.did.refreshes > 0 THEN refreshListeners(res.dom, t, rs)
                      ELSE res.dom
          /\ now' = IF res.did.branch \in {"library", "image"}
                        \/ (res.did.refreshes > 0 /\ NManualF(res.dom) > 0)
                     THEN t ELSE now
          /\ selection' = IF res.did.refreshes > 0 THEN Detach(selection) ELSE selection
          /\ content' = IF res.saved # <<>> THEN res.saved[1] ELSE content
          /\ flag' = IF res.saved # <<>> THEN TRUE ELSE flag
          /\ effectPending' = pending
          /\ timers' = Schedule(timers, res.started, pending)
          /\ dragState' = IF res.did.threw THEN dragState ELSE NoDrag
          /\ last' = res.did
          /\ native' = [native EXCEPT !.dropped = TRUE, !.data = data]
  /\ UNCHANGED norm

\* The browser ends the drag session (after a drop, a drop outside the canvas
\* or a cancel) with a dragend event on the drag source.  Only the library and
\* image items of the sidebar have a dragend handler: handleDragEnd.
DragEnd ==
  /\ native.kind # "none"
  /\ native' = NoNative
  /\ IF native.kind \in {"library", "image"}
     THEN /\ dom' = RestoreOpacity(RemoveIndicators(dom))
          /\ dragState' = NoDrag
          /\ last' = Did("dragend", "handled", FALSE, 0, 0, 0)
     ELSE /\ UNCHANGED <<dom, dragState>>
          /\ last' = Did("dragend", "unhandled", FALSE, 0, 0, 0)
  /\ UNCHANGED <<content, selection, flag, effectPending, timers, now, gestures, norm>>

\* --------------------------------------------------------------- sidebar edits
\* the properties panel is shown while selection.selectedElement is not null
PanelOpen == NativeIdle /\ selection.selectedElement # "null"

\* updateElementStyle(property, value, selection.selectedElementId)
updateElementStyle ==
  /\ PanelOpen /\ Gesture
  /\ LET el == QueryById(dom, selection.selectedElementId) IN
     IF el = Null
     THEN /\ last' = Did("style", "missing", FALSE, 0, 0, 0)
          /\ UNCHANGED <<dom, content, flag, effectPending, timers>>
     ELSE LET d == ReplaceAt(dom, el, <<[GetAt(dom, el) EXCEPT !.st = 1 - @]>>)
              c == StyleSaveContent(d)
          IN /\ Len(timers) < MaxTimers
             /\ dom' = d
             /\ content' = c
             /\ flag' = TRUE
             /\ effectPending' = (effectPending \/ c # content)
             /\ timers' = Schedule(timers, <<ResetTimer>>, effectPending \/ c # content)
             /\ last' = Did("style", "saved", FALSE, 1, 0, 0)
  /\ UNCHANGED <<selection, dragState, native, now, norm>>

\* updateElementContent(text, selection.selectedElementId) with plain text:
\* the element's children are replaced by the text, then updateContentFromDOM
updateElementContent ==
  /\ PanelOpen /\ Gesture
  /\ LET el == QueryById(dom, selection.selectedElementId) IN
     IF el = Null
     THEN /\ last' = Did("content", "missing", FALSE, 0, 0, 0)
          /\ UNCHANGED <<dom, content, flag, effectPending, timers>>
     ELSE LET d == ReplaceAt(dom, el, <<[GetAt(dom, el) EXCEPT
                                          !.txt = "words", !.kids = <<>>, !.handles = 0]>>)
              c == updateContentFromDOM(d)
          IN /\ Len(timers) < MaxTimers
             /\ dom' = ContainerAfterSave(d)
             /\ content' = c
             /\ flag' = TRUE
             /\ effectPending' = (effectPending \/ c # content)
             /\ timers' = Schedule(timers, <<ResetTimer>>, effectPending \/ c # content)
             /\ last' = Did("content", "saved", FALSE, 1, 0, 0)
  /\ UNCHANGED <<selection, dragState, native, now, norm>>

\* handleElementDelete: deleteElement(selection.selectedElementId), clearSelection()
handleElementDelete ==
  /\ PanelOpen /\ Gesture
  /\ LET el == QueryById(dom, selection.selectedElementId)
         d == IF el = Null THEN dom ELSE ReplaceAt(dom, el, <<>>)
         c == updateContentFromDOM(d)
         sel == selectElement(IF el = Null THEN d ELSE ContainerAfterSave(d), NoId)
     IN /\ dom' = sel.dom
        /\ selection' = sel.selection
        /\ IF el = Null
           THEN /\ last' = Did("delete", "missing", FALSE, 0, 0, 1)
                /\ UNCHANGED <<content, flag, effectPending, timers>>
           ELSE /\ Len(timers) < MaxTimers
                /\ content' = c
                /\ flag' = TRUE
                /\ effectPending' = (effectPending \/ c # content)
                /\ timers' = Schedule(timers, <<ResetTimer>>, effectPending \/ c # content)
                /\ last' = Did("delete", "saved", FALSE, 1, 0, 1)
  /\ UNCHANGED <<dragState, native, now, norm>>

\* ------------------------------------------------------- effects and timers
\* The page-content effect, queued by a render with a changed currentPage.content.
\* Timers started since the persist are not due before it has run.
PageEffect ==
  /\ effectPending /\ ~Dropped
  /\ effectPending' = FALSE
  /\ IF flag
     THEN /\ timers' = [i \in 1..Len(timers) |-> [timers[i] EXCEPT !.eff = FALSE]]
          /\ now' = now
          /\ last' = Did("effect", "skipped", FALSE, 0, 0, 0)
     ELSE /\ Len(timers) < MaxTimers
          /\ \E t \in Clock, rs \in Draws(NeedDraws(ContentToProcess(content))) :
               /\ timers' = Append([i \in 1..Len(timers) |-> [timers[i] EXCEPT !.eff = FALSE]],
                                   Timer("materialize", 100, NoId,
                                         processContentForBuilder(ContentToProcess(content),
                                                                  t, rs).html))
               /\ now' = IF NTagF(ContentToProcess(content)) > 0
                             \/ ~hasBuilderElements(ContentToProcess(content))
                          THEN t ELSE now
          /\ last' = Did("effect", "rebuild", FALSE, 0, 0, 0)
  /\ UNCHANGED <<dom, content, selection, dragState, native, flag, gestures, norm>>

\* timer i is due: no timer started earlier has a delay as short, and the page
\* effect it waits for has run
Due(i) ==
  /\ i \in 1..Len(timers)
  /\ ~Dropped
  /\ ~timers[i].eff
  /\ \A j \in 1..(i - 1) : timers[j].delay > timers[i].delay

Without(i) == SubSeq(timers, 1, i - 1) \o SubSeq(timers, i + 1, Len(timers))

\* updateContent / updateElementStyle: isUpdatingFromBuilderRef.current = false
ResetFlag(i) ==
  /\ Due(i) /\ timers[i].kind = "reset"
  /\ flag' = FALSE
  /\ timers' = Without(i)
  /\ last' = Did("timer", "reset", FALSE, 0, 0, 0)
  /\ UNCHANGED <<dom, content, selection, dragState, native, effectPending, now, gestures, norm>>

\* the page effect's deferred DOM write: innerHTML = processed.html, attach
Materialize(i) ==
  /\ Due(i) /\ timers[i].kind = "materialize"
  /\ dom' = IF timers[i].html # <<>> THEN attachEventListeners(Parse(timers[i].html)) ELSE dom
  /\ selection' = IF timers[i].html # <<>> THEN Detach(selection) ELSE selection
  /\ timers' = Without(i)
  /\ last' = Did("timer", "materialize", FALSE, 0, 0, 0)
  /\ UNCHANGED <<content, dragState, native, flag, effectPending, now, gestures, norm>>

\* the mount effect's deferred scan: processExistingDOMContent() && attach
Scan(i) ==
  /\ Due(i) /\ timers[i].kind = "scan"
  /\ \E t \in Clock, rs \in Draws(NManualF(dom)) :
       /\ dom' = IF NManualF(dom) > 0
                 THEN attachEventListeners(processExistingDOMContent(dom, t, rs, 0))
                 ELSE dom
       /\ now' = IF NManualF(dom) > 0 THEN t ELSE now
  /\ timers' = Without(i)
  /\ last' = Did("timer", "scan", FALSE, 0, 0, 0)
  /\ UNCHANGED <<content, selection, dragState, native, flag, effectPending, gestures, norm>>

\* createNewElement / createImageElement: onRefreshListeners(); onElementSelect(id)
RefreshSelect(i) ==
  /\ Due(i) /\ timers[i].kind = "refresh-select"
  /\ \E t \in Clock, rs \in Draws(NManualF(dom)) :
       LET sel == selectElement(refreshListeners(dom, t, rs), timers[i].id)
       IN /\ dom' = sel.dom /\ selection' = sel.selection
          /\ now' = IF NManualF(dom) > 0 THEN t ELSE now
  /\ timers' = Without(i)
  /\ last' = Did("timer", "refresh-select", FALSE, 0, 1, 1)
  /\ UNCHANGED <<content, dragState, native, flag, effectPending, gestures, norm>>

\* reorderElement: onElementSelect(elementId)
DeferredSelect(i) ==
  /\ Due(i) /\ timers[i].kind = "select"
  /\ LET sel == selectElement(dom, timers[i].id)
     IN dom' = sel.dom /\ selection' = sel.selection
  /\ timers' = Without(i)
  /\ last' = Did("timer", "select", FALSE, 0, 0, 1)
  /\ UNCHANGED <<content, dragState, native, flag, effectPending, now, gestures, norm>>

Next ==
  \/ \E p \in {Paths(dom)[i] : i \in 1..Len(Paths(dom))} : Click(p)
  \/ ClickCanvas
  \/ \E p \in {Paths(dom)[i] : i \in 1..Len(Paths(dom))} : MouseEnter(p)
  \/ \E p \in {Paths(dom)[i] : i \in 1..Len(Paths(dom))} : MouseLeave(p)
  \/ \E type \in LibraryTypes : LibraryDragStart(type)
  \/ ImageDragStart
  \/ \E p \in {Paths(dom)[i] : i \in 1..Len(Paths(dom))} : CanvasDragStart(p)
  \/ ForeignDragStart
  \/ \E p \in {Paths(dom)[i] : i \in 1..Len(Paths(dom))} : SyntheticDragStart(p)
  \/ \E y \in Pointer(dom) : handleDragOver(y)
  \/ \E y \in Pointer(dom) : handleDrop(y)
  \/ DragEnd
  \/ updateElementStyle
  \/ updateElementContent
  \/ handleElementDelete
  \/ PageEffect
  \/ \E i \in 1..Len(timers) : ResetFlag(i)
  \/ \E i \in 1..Len(timers) : Materialize(i)
  \/ \E i \in 1..Len(timers) : Scan(i)
  \/ \E i \in 1..Len(timers) : RefreshSelect(i)
  \/ \E i \in 1..Len(timers) : DeferredSelect(i)

Spec == Init /\ [][Next]_vars

\* a pending timer fires
TimerFires ==
  \E i \in 1..Len(timers) :
     ResetFlag(i) \/ Materialize(i) \/ Scan(i) \/ RefreshSelect(i) \/ DeferredSelect(i)

\* The browser ends every drag session, runs every queued effect and fires
\* every timer; the user is free never to make another gesture.
Fairness == WF_vars(DragEnd) /\ WF_vars(PageEffect) /\ WF_vars(TimerFires)

\* the drag sessions by themselves: the user only drags
NextDrag ==
  \/ \E type \in LibraryTypes : LibraryDragStart(type)
  \/ ImageDragStart
  \/ \E p \in {Paths(dom)[i] : i \in 1..Len(Paths(dom))} : CanvasDragStart(p)
  \/ ForeignDragStart
  \/ \E y \in Pointer(dom) : handleDragOver(y)
  \/ \E y \in Pointer(dom) : handleDrop(y)
  \/ DragEnd
  \/ PageEffect
  \/ TimerFires

SpecLive == Init /\ [][NextDrag]_vars /\ Fairness

\* -------------------------------------------------------------- image resize
\* clientX / clientY of the mouse events, the four handles, the mouse buttons
Coords == {0, 20}
Handles == {"se", "sw", "ne", "nw"}
Buttons == {0, 2}

\* a resize without a minimum size
NoMinimum(v) == v

\* Math.max(50, v)
EnforceMinimum(v) == IF v < MinSize THEN MinSize ELSE v

\* handleImageResize's handleMouseMove of the session s, for a mousemove at (x, y)
handleMouseMove(r, s, x, y) ==
  LET deltaX == x - s.startX
      deltaY == y - s.startY
      newWidth == IF s.handle \in {"se", "ne"} THEN s.startW + deltaX ELSE s.startW - deltaX
      newHeight == IF s.handle \in {"se", "sw"} THEN s.startH + deltaY ELSE s.startH - deltaY
  IN [r EXCEPT !.w = EnforceMinimum(newWidth), !.h = EnforceMinimum(newHeight),
               !.figw = IF s.tag = "figure" THEN EnforceMinimum(newWidth) ELSE @]

\* the document's mousemove listeners, in the order they were added
RECURSIVE MoveAll(_, _, _, _)
MoveAll(r, sessions, x, y) ==
  IF sessions = <<>> THEN r
  ELSE MoveAll(handleMouseMove(r, Head(sessions), x, y), Tail(sessions), x, y)

\* new CustomEvent('imageResized', { detail }): bubbles is not set
imageResizedBubbles == FALSE

\* whether an event dispatched on the resized element runs the listener that
\* BuilderCanvas adds to the container (no capture)
ReachesContainer(targetIsContainer, bubbles) == targetIsContainer \/ bubbles

\* mousedown with button b at (x, y) on a resize handle of the element at p:
\* handleImageResize(e, element, handle)
handleImageResize(p, handle, x, y, b) ==
  /\ rz.downs < MaxDowns /\ b \notin rz.pressed
  /\ p \in {Paths(dom)[i] : i \in 1..Len(Paths(dom))}
  /\ GetAt(dom, p).handles = 4
  /\ rz' = IF HasImg(GetAt(dom, p))
           THEN [rz EXCEPT !.sessions = Append(@, [handle |-> handle, startX |-> x, startY |-> y,
                                                  startW |-> rz.w, startH |-> rz.h,
                                                  tag |-> GetAt(dom, p).tag]),
                           !.pressed = @ \cup {b}, !.downs = @ + 1, !.userSelect = "none"]
           ELSE [rz EXCEPT !.pressed = @ \cup {b}, !.downs = @ + 1]
  /\ last' = Did("mousedown", handle, FALSE, 0, 0, 0)
  /\ UNCHANGED <<dom, content, selection, dragState, native, flag, effectPending,
                 timers, now, gestures, nx, nrs, nr, nr2, nr3>>

\* a mousemove at (x, y): every handleMouseMove on the document runs
DocumentMouseMove(x, y) ==
  /\ rz' = [MoveAll(rz, rz.sessions, x, y) EXCEPT !.x = x, !.y = y]
  /\ last' = Did("mousemove", IF rz.sessions = <<>> THEN "idle" ELSE "resize", FALSE, 0, 0, 0)
  /\ UNCHANGED <<dom, content, selection, dragState, native, flag, effectPending,
                 timers, now, gestures, nx, nrs, nr, nr2, nr3>>

\* the release of button b: every handleMouseUp on the document runs, removes
\* its two listeners and dispatches imageResized on the element; the handler
\* on the container, when the event reaches it, calls
\* updateContent(contentRef.current.innerHTML)
DocumentMouseUp(b) ==
  /\ b \in rz.pressed
  /\ LET k == Len(rz.sessions)
         updates == IF ReachesContainer(FALSE, imageResizedBubbles) THEN k ELSE 0
         c == Serialize(dom)
         pending == effectPending \/ (updates > 0 /\ c # content)
     IN /\ Len(timers) + updates <= MaxTimers
        /\ rz' = [rz EXCEPT !.pressed = @ \ {b}, !.sessions = <<>>,
                            !.userSelect = IF k > 0 THEN "" ELSE @,
                            !.emitted = @ + k,
                            !.saved = @ \o [i \in 1..updates |-> <<rz.w, rz.h>>]]
        /\ content' = IF updates > 0 THEN c ELSE content
        /\ flag' = IF updates > 0 THEN TRUE ELSE flag
        /\ effectPending' = pending
        /\ timers' = Schedule(timers, [i \in 1..updates |-> ResetTimer], pending)
        /\ last' = Did("mouseup", IF k > 0 THEN "resized" ELSE "idle", FALSE, updates, 0, 0)
  /\ UNCHANGED <<dom, selection, dragState, native, now, gestures, nx, nrs, nr, nr2, nr3>>

\* the canvas after an image was dropped on it and selected by the drop's timer
InitResize ==
  LET made == createImageElement(<<>>, 0, 0)
      sel == selectElement(refreshListeners(made.dom, 0, <<>>), made.id)
  IN /\ dom = sel.dom
     /\ selection = sel.selection
     /\ content = saveCleanContent(made.dom)
     /\ timers = <<>>
     /\ dragState = NoDrag
     /\ native = NoNative
     /\ flag = FALSE
     /\ effectPending = FALSE
     /\ now = 0
     /\ gestures = 0
     /\ last = Did("mount", "", FALSE, 0, 0, 0)
     /\ nx = <<>> /\ nrs = <<>> /\ nr = <<>> /\ nr2 = <<>> /\ nr3 = <<>>
     /\ rz = NoResize

\* the user only resizes
NextResize ==
  \/ \E p \in {Paths(dom)[i] : i \in 1..Len(Paths(dom))}, handle \in Handles,
        x \in Coords, y \in Coords, b \in Buttons : handleImageResize(p, handle, x, y, b)
  \/ \E x \in Coords, y \in Coords : DocumentMouseMove(x, y)
  \/ \E b \in Buttons : DocumentMouseUp(b)

SpecResize == InitResize /\ [][NextResize]_vars

\* ------------------------------------------------- a change of the page
\* The parent renders the builder with another currentPageIndex, or with a book
\* whose current page holds other content: currentPage.content changes, which
\* queues the page-content effect.
PageChange(c) ==
  /\ NativeIdle /\ Gesture
  /\ c \in InitContents /\ c # content
  /\ content' = c
  /\ effectPending' = TRUE
  /\ last' = Did("page", "changed", FALSE, 0, 0, 0)
  /\ UNCHANGED <<dom, selection, dragState, native, flag, timers, now, norm>>

\* the user selects, edits in the panel and deletes, and the page changes
NextPage ==
  \/ \E c \in InitContents : PageChange(c)
  \/ \E p \in {Paths(dom)[i] : i \in 1..Len(Paths(dom))} : Click(p)
  \/ updateElementStyle
  \/ updateElementContent
  \/ handleElementDelete
  \/ PageEffect
  \/ TimerFires

SpecPage == Init /\ [][NextPage]_vars

\* ------------------------------------------- the engine on an empty canvas
\* The drag-and-drop engine on a container into which the normaliser's result
\* for an empty page, processContentForBuilder('').html, has been written.
InitCanvas ==
  /\ content = <<>>
  /\ dom = attachEventListeners(Parse(processContentForBuilder(<<>>, 0, <<0>>).html))
  /\ timers = <<>>
  /\ selection = NoSelection
  /\ dragState = NoDrag
  /\ native = NoNative
  /\ flag = FALSE
  /\ effectPending = FALSE
  /\ now = 0
  /\ gestures = 0
  /\ last = Did("mount", "", FALSE, 0, 0, 0)
  /\ nx = <<>> /\ nrs = <<>> /\ nr = <<>> /\ nr2 = <<>> /\ nr3 = <<>>
  /\ rz = NoResize

\* the user only drags, as in NextDrag
SpecCanvas == InitCanvas /\ [][NextDrag]_vars

\* ------------------------------------------- the engine on a saved page
\* pages saved by the builder: a title and a paragraph, the title reading
\* either the sentence the placeholder test looks for or other words
TitledContents ==
  { <<MNode("h1", <<"saved-title">>, t, <<>>),
      MNode("p", <<"saved-paragraph">>, "words", <<>>)>> : t \in {TextStartBuilding, "words"} }

\* the container after the page effect has written such a page into it
InitTitled ==
  /\ content \in TitledContents
  /\ dom = attachEventListeners(Parse(processContentForBuilder(content, 0, <<0>>).html))
  /\ timers = <<>>
  /\ selection = NoSelection
  /\ dragState = NoDrag
  /\ native = NoNative
  /\ flag = FALSE
  /\ effectPending = FALSE
  /\ now = 0
  /\ gestures = 0
  /\ last = Did("mount", "", FALSE, 0, 0, 0)
  /\ nx = <<>> /\ nrs = <<>> /\ nr = <<>> /\ nr2 = <<>> /\ nr3 = <<>>
  /\ rz = NoResize

\* the user only drags, as in NextDrag
SpecTitled == InitTitled /\ [][NextDrag]_vars

\* ------------------------------------ the panel on a page with a repeated id
\* Pages whose normalised form holds one id twice: two untagged paragraphs, whose
\* ids differ only in the Math.random() suffix drawn for each, and saved content
\* in which a tagged paragraph occurs twice.
TwinContents ==
  { <<MNode("p", NoId, "words", <<>>), MNode("p", NoId, "words", <<>>)>>,
    <<MNode("p", <<"saved-paragraph">>, "words", <<>>),
      MNode("p", <<"saved-paragraph">>, "words", <<>>)>> }

\* the container after the page effect has written such a page into it
InitTwins ==
  /\ content \in TwinContents
  /\ \E rs \in Draws(2) :
       dom = attachEventListeners(Parse(processContentForBuilder(content, 0, rs).html))
  /\ timers = <<>>
  /\ selection = NoSelection
  /\ dragState = NoDrag
  /\ native = NoNative
  /\ flag = FALSE
  /\ effectPending = FALSE
  /\ now = 0
  /\ gestures = 0
  /\ last = Did("mount", "", FALSE, 0, 0, 0)
  /\ nx = <<>> /\ nrs = <<>> /\ nr = <<>> /\ nr2 = <<>> /\ nr3 = <<>>
  /\ rz = NoResize

SpecTwins == InitTwins /\ [][NextPage]_vars

\* --------------------------------------------------- the normaliser by itself
NormAtoms ==
  { Text("words"), Text("ws"), Text("attr"),
    MNode("span", NoId, "words", <<>>),
    MNode("br", NoId, "", <<>>),
    MNode("p", NoId, "words", <<>>),
    MNode("div", NoId, "", <<MNode("p", NoId, "words", <<>>)>>),
    MNode("p", NoId, "words", <<MNode("b", NoId, "words", <<>>)>>),
    MNode("p", <<"saved-paragraph">>, "words", <<>>) }

\* the ids of a forest are pairwise distinct
Distinct(ids) == \A i, j \in 1..Len(ids) : ids[i] = ids[j] => i = j

\* contents of up to MaxLen top-level nodes whose ids, if any, are distinct
NormInputs ==
  {c \in UNION {[1..n -> NormAtoms] : n \in 0..MaxLen} : Distinct(TaggedIds(c))}

InitNorm ==
  /\ nx \in NormInputs
  /\ nrs \in Draws(NeedDraws(nx))
  /\ nr = <<>> /\ nr2 = <<>> /\ nr3 = <<>>
  /\ rz = NoResize
  /\ content = <<>> /\ timers = <<>> /\ dom = <<>>
  /\ selection = NoSelection /\ dragState = NoDrag /\ native = NoNative
  /\ flag = FALSE /\ effectPending = FALSE
  /\ now = 0 /\ gestures = 0
  /\ last = Did("mount", "", FALSE, 0, 0, 0)

\* processContentForBuilder(x)
Normalize ==
  /\ nr = <<>>
  /\ \E t \in Clock : nr' = <<processContentForBuilder(nx, t, nrs)>> /\ now' = t
  /\ UNCHANGED <<dom, content, selection, dragState, native, flag, effectPending,
                 timers, gestures, last, nx, nrs, nr2, nr3, rz>>

\* processContentForBuilder(processContentForBuilder(x).html)
NormalizeAgain ==
  /\ nr # <<>> /\ nr2 = <<>>
  /\ \E t \in Clock, rs \in Draws(NeedDraws(nr[1].html)) :
       nr2' = <<processContentForBuilder(nr[1].html, t, rs)>> /\ now' = t
  /\ UNCHANGED <<dom, content, selection, dragState, native, flag, effectPending,
                 timers, gestures, last, nx, nrs, nr, nr3, rz>>

\* the page effect's deferred write of the normaliser's result:
\* innerHTML = processed.html; attachEventListeners()
MaterializeNorm ==
  /\ nr # <<>> /\ dom = <<>>
  /\ dom' = attachEventListeners(Parse(nr[1].html))
  /\ last' = Did("timer", "materialize", FALSE, 0, 0, 0)
  /\ UNCHANGED <<content, selection, dragState, native, flag, effectPending,
                 timers, now, gestures, norm>>

\* saveCleanContent() on the materialised container
SerializeNorm ==
  /\ dom # <<>> /\ content = <<>>
  /\ content' = saveCleanContent(dom)
  /\ last' = Did("save", "clean", FALSE, 1, 0, 0)
  /\ UNCHANGED <<dom, selection, dragState, native, flag, effectPending,
                 timers, now, gestures, norm>>

\* processContentForBuilder(saved content)
NormalizeSaved ==
  /\ content # <<>> /\ nr3 = <<>>
  /\ \E t \in Clock, rs \in Draws(NeedDraws(content)) :
       nr3' = <<processContentForBuilder(content, t, rs)>> /\ now' = t
  /\ UNCHANGED <<dom, content, selection, dragState, native, flag, effectPending,
                 timers, gestures, last, nx, nrs, nr, nr2, rz>>

NextNorm ==
  \/ Normalize
  \/ NormalizeAgain
  \/ MaterializeNorm
  \/ SerializeNorm
  \/ NormalizeSaved

SpecNorm == InitNorm /\ [][NextNorm]_vars

\* ------------------------------------------------------------------ claims
\* C1: every content string a save path hands to persistence holds no resize
\* handle and, on its tagged elements, no selection outline, outline offset
\* or selection shadow.
C1_SavedContentIsClean ==
  \A i \in 1..Len(Flat(content)) :
     LET n == Flat(content)[i]
     IN /\ n.handles = 0
        /\ IsTagged(n) => n.outline # "solid" /\ n.offset # "2px" /\ n.shadow # "glow"

\* C2: normalising the html of a normaliser result returns that html
\* unchanged and reports wasAlreadyProcessed.
C2_NormalizeIdempotent ==
  nr2 # <<>> => nr2[1].html = nr[1].html /\ nr2[1].wasAlreadyProcessed

\* the tagged elements that carry the selection outline or the selection shadow
StyledPaths(nodes) ==
  {p \in {TaggedPaths(nodes)[i] : i \in 1..Len(TaggedPaths(nodes))} :
     GetAt(nodes, p).outline = "solid" \/ GetAt(nodes, p).shadow = "glow"}

\* C3: at most one tagged element carries selection styling, it is the one
\* whose id was selected, and a selectElement call that finds its element
\* leaves exactly that element styled.
C3_SelectionExclusive ==
  /\ Cardinality(StyledPaths(dom)) <= 1
  /\ \A p \in StyledPaths(dom) : GetAt(dom, p).id = selection.selectedElementId
  /\ (last.selects > 0 /\ selection.selectedElement = "live")
       => StyledPaths(dom) = {QueryById(dom, selection.selectedElementId)}

\* a click has selected one element while another, cleared one is on the canvas
C3_SelectedAfterAnother ==
  /\ last.op = "click" /\ last.selects = 1 /\ gestures >= 2
  /\ selection.selectedElement = "live"
  /\ \E p \in StyledPaths(dom) :
       \E i \in 1..Len(TaggedPaths(dom)) :
          LET q == TaggedPaths(dom)[i]
          IN q # p /\ GetAt(dom, q).outline = "none" /\ GetAt(dom, q).shadow = "none"

\* the drag state is null, no indicator is in the container and every tagged
\* element is fully opaque
CleanedUp ==
  /\ dragState = NoDrag
  /\ \A i \in 1..Len(Flat(dom)) :
       LET n == Flat(dom)[i]
       IN n.cls # "drop-indicator" /\ (IsTagged(n) => n.opacity \in {"", "1"})

\* C4: every drag session is followed by a state in which the session is
\* over and the engine is cleaned up.
C4_DragSessionCleansUp == (native.kind # "none") ~> (native.kind = "none" /\ CleanedUp)

\* C5: handleDrop never raises an exception.
C5_DropNeverRaises == ~(last.op = "drop" /\ last.threw)

\* the ids other than id, in document order
OtherIds(ids, id) == SelectSeq(ids, LAMBDA x : x # id)

\* C6: a drop of an element dragged from the canvas leaves the tagged ids of
\* the container as they were, each once, and the others in their order.
C6_ReorderKeepsElements ==
  [][(native.kind = "canvas" /\ ~native.dropped /\ native'.dropped)
       => LET before == TaggedIds(RemoveIndicators(dom))
              after == TaggedIds(dom')
          IN /\ Len(after) = Len(before)
             /\ {after[i] : i \in 1..Len(after)} = {before[i] : i \in 1..Len(before)}
             /\ OtherIds(after, native.data.id) = OtherIds(before, native.data.id)]_vars

\* C7: when handleDrop has finished, draggedElementType and draggedElementId
\* are both null.
C7_DropClearsDragState == native.dropped => dragState = NoDrag

\* C8: a drop of a canvas element at an insertion point equal to its next
\* sibling saves nothing, starts no timer, refreshes and selects nothing and
\* changes the container only by removing the indicator.
C8_SamePositionDropIsNoOp ==
  [][\A y \in Pointer(RemoveIndicators(dom)) :
       LET nodes0 == RemoveIndicators(dom)
           el == QueryById(nodes0, native.data.id)
       IN (/\ native.kind = "canvas"
           /\ el # Null
           /\ findInsertPosition(nodes0, y) = NextElementSibling(nodes0, el)
           /\ handleDrop(y))
          => /\ content' = content /\ flag' = flag /\ effectPending' = effectPending
             /\ timers' = timers
             /\ selection' = selection
             /\ dom' = nodes0
             /\ last'.saves = 0 /\ last'.refreshes = 0 /\ last'.selects = 0]_vars

\* a canvas element has just been dropped where it already was
C8_DroppedInPlace ==
  /\ native.kind = "canvas" /\ native.dropped
  /\ last.op = "drop" /\ last.branch = "same-position"
  /\ Len(TaggedPaths(dom)) >= 2

C10_IdsDistinct ==
  /\ Distinct(TaggedIds(dom))
  /\ nr # <<>> => Distinct(TaggedIds(nr[1].html))

\* C11: a selectElement call whose id no element of the container carries
\* ends Unselected: the selected id is null, the selected element is null and
\* no element is styled as selected.
C11_StaleIdSelectsNothing ==
  (last.selects > 0 /\ selection.selectedElement = "null")
    => (selection.selectedElementId = NoId /\ StyledPaths(dom) = {})

\* the deferred select of a drop ran after the dropped element was gone
C11_DeferredSelectMissed ==
  /\ last.op = "timer" /\ last.branch = "refresh-select"
  /\ selection.selectedElementId # NoId
  /\ QueryById(dom, selection.selectedElementId) = Null

\* C12: no content string handed to onContentUpdate or onSave holds a
\* drop-indicator node.
C12_NoIndicatorSaved ==
  \A i \in 1..Len(Flat(content)) : Flat(content)[i].cls # "drop-indicator"

\* C13: draggedElementType and draggedElementId are never both non-null.
C13_DragKindsExclusive ==
  ~(dragState.draggedElementType # "" /\ dragState.draggedElementId # NoId)

\* the indicator nodes anywhere in the container
Indicators(nodes) ==
  {i \in 1..Len(Flat(nodes)) : Flat(nodes)[i].cls = "drop-indicator"}

\* C14: the container never holds more than one drop indicator, and it holds
\* none right after handleDrop and right after handleDragEnd.
C14_AtMostOneIndicator ==
  /\ Cardinality(Indicators(dom)) <= 1
  /\ last.op = "drop" => Indicators(dom) = {}
  /\ (last.op = "dragend" /\ last.branch = "handled") => Indicators(dom) = {}

\* a reorder dragover has put the indicator between two canvas elements
C14_IndicatorBetweenElements ==
  /\ last.op = "dragover" /\ last.branch = "move"
  /\ Len(dom) >= 3 /\ dom[2].cls = "drop-indicator"
  /\ Cardinality(Indicators(dom)) = 1

\* twice the midpoints of the tagged elements, in document order
Middles2(nodes) ==
  [i \in 1..Len(TaggedPaths(nodes)) |-> Middle2(nodes, TaggedPaths(nodes)[i])]

\* the first index among the midpoints nearest to pointer y
Closest(mids, y) ==
  CHOOSE i \in 1..Len(mids) :
    /\ \A j \in 1..Len(mids) : Abs(2 * y - mids[i]) <= Abs(2 * y - mids[j])
    /\ \A j \in 1..(i - 1) : Abs(2 * y - mids[j]) > Abs(2 * y - mids[i])

OnlyPlaceholder(nodes) ==
  Len(nodes) = 1 /\ nodes[1].txt = "placeholder" /\ ~IsTagged(nodes[1])

\* the pending timers that will call onElementSelect
SelectTimers(ts) ==
  SelectSeq(ts, LAMBDA tm : tm.kind \in {"select", "refresh-select"})

\* C16: a drop of a known library element on a canvas that holds only the
\* untagged placeholder removes the placeholder, leaves the new element as the
\* only tagged element, saves once, and schedules one onElementSelect, which
\* is called once with the new element's id.
C16_DropOnPlaceholder ==
  [][ /\ (OnlyPlaceholder(dom) /\ native.kind = "library" /\ native'.dropped /\ ~native.dropped)
         => /\ \A i \in 1..Len(Flat(dom')) : Flat(dom')[i].txt # "placeholder"
            /\ Len(TaggedIds(dom')) = 1 /\ Len(dom') = 1
            /\ TaggedIds(dom')[1] \notin {TaggedIds(dom)[i] : i \in 1..Len(TaggedIds(dom))}
            /\ last'.saves = 1 /\ content' = Serialize(dom')
            /\ last'.selects = 0
            /\ Len(SelectTimers(timers')) = Len(SelectTimers(timers)) + 1
            /\ SelectTimers(timers')[Len(SelectTimers(timers'))].id = TaggedIds(dom')[1]
      /\ \A i \in 1..Len(timers) :
           (timers[i].kind = "refresh-select" /\ timers' = Without(i)
              /\ last'.op = "timer" /\ last'.branch = "refresh-select")
           => last'.selects = 1 /\ selection'.selectedElementId = timers[i].id
    ]_vars

\* the first drop of the session, a library element on the placeholder, is done
C16_DroppedOnPlaceholder ==
  /\ last.op = "drop" /\ last.branch = "library" /\ gestures = 2
  /\ Len(dom) = 1 /\ IsTagged(dom[1]) /\ content = Serialize(dom)

\* C17: for input with a block-level tag and no identity attribute, the
\* normaliser reports the same elementCount for the saved markup of the
\* materialised container as for the input, and the tagged elements are the same.
C17_RoundTripKeepsCount ==
  (nr3 # <<>> /\ HasBlock(nx) /\ TaggedIds(nx) = <<>>)
    => /\ nr3[1].elementCount = nr[1].elementCount
       /\ TaggedIds(nr3[1].html) = TaggedIds(nr[1].html)

\* a nested block input went round: both blocks were tagged and counted twice
C17_NestedWentRound ==
  /\ nr3 # <<>> /\ TaggedIds(nx) = <<>>
  /\ \E i \in 1..Len(nx) : nx[i].tag = "div" /\ nx[i].kids # <<>>
  /\ nr[1].elementCount >= 2
  /\ nr3[1].wasAlreadyProcessed

\* the input is empty or consists of whitespace only
OnlyWhitespace(c) == \A i \in 1..Len(c) : ~IsElem(c[i]) /\ c[i].txt \in {"", "ws"}

\* C18: for empty or whitespace-only input the normaliser returns the fixed
\* placeholder block, which carries no id, with elementCount 0 and
\* wasAlreadyProcessed false.
C18_BlankGivesPlaceholder ==
  (nr # <<>> /\ OnlyWhitespace(nx))
    => /\ Len(nr[1].html) = 1
       /\ nr[1].html[1].tag = "div" /\ nr[1].html[1].txt = "placeholder"
       /\ TaggedIds(nr[1].html) = <<>>
       /\ nr[1].elementCount = 0
       /\ ~nr[1].wasAlreadyProcessed

\* a whitespace-only input has been normalised
C18_WhitespaceNormalized ==
  nr # <<>> /\ nx # <<>> /\ OnlyWhitespace(nx)

\* C19: for non-empty input without identity attribute and without block-level
\* tag the normaliser returns one container with an imported-content id around
\* the unchanged fragment, elementCount 1, wasAlreadyProcessed false and no
\* inner node tagged.
C19_InlineIsWrappedOnce ==
  (nr # <<>> /\ ~OnlyWhitespace(nx) /\ TaggedIds(nx) = <<>> /\ ~HasBlock(nx))
    => /\ Len(nr[1].html) = 1
       /\ IsTagged(nr[1].html[1]) /\ nr[1].html[1].id[1] = "imported-content"
       /\ nr[1].html[1].kids = nx
       /\ Len(TaggedIds(nr[1].html)) = 1
       /\ nr[1].elementCount = 1
       /\ ~nr[1].wasAlreadyProcessed

\* out is in with one imported-<tag> id on every element that is neither a
\* non-visual tag nor inside one, and nothing else changed
RECURSIVE TaggedAsClaimed(_, _)
TaggedAsClaimed(in, out) ==
  /\ Len(out) = Len(in)
  /\ \A i \in 1..Len(in) :
       IF ~IsElem(in[i]) \/ in[i].tag \in SkipTags
       THEN out[i] = in[i]
       ELSE /\ out[i].tag = in[i].tag /\ out[i].txt = in[i].txt
            /\ IsTagged(out[i])
            /\ out[i].id[1] = "imported" /\ out[i].id[2] = in[i].tag
            /\ TaggedAsClaimed(in[i].kids, out[i].kids)

\* C20: for input with a block-level tag and no identity attribute the
\* normaliser tags every element that is neither a non-visual tag nor inside
\* one, reports wasAlreadyProcessed false and counts the tagged elements
\* (2 for two sibling blocks without children).
C20_BlocksAreTagged ==
  (nr # <<>> /\ HasBlock(nx) /\ TaggedIds(nx) = <<>>)
    => /\ TaggedAsClaimed(nx, nr[1].html)
       /\ ~nr[1].wasAlreadyProcessed
       /\ nr[1].elementCount = Len(TaggedIds(nr[1].html))
       /\ (Len(nx) = 2 /\ \A i \in 1..2 : nx[i].tag \in BlockTags /\ nx[i].kids = <<>>)
            => nr[1].elementCount = 2

\* the ids of the tagged elements of a forest, in document order
RECURSIVE IdSeq(_)
IdSeq(nodes) ==
  IF nodes = <<>> THEN <<>>
  ELSE (IF IsTagged(Head(nodes)) THEN <<Head(nodes).id>> ELSE <<>>)
       \o IdSeq(Head(nodes).kids) \o IdSeq(Tail(nodes))

\* seq without the entries that are not in set
Restrict(seq, set) == SelectSeq(seq, LAMBDA id : id \in set)

\* c lists its ids in the order d lists them
SameOrder(c, d) == c = Restrict(d, {c[i] : i \in 1..Len(c)})

\* what selection shows on an element: outline, offset, shadow, resize handles
SelectionLook(n) == <<n.outline, n.offset, n.shadow, n.handles>>

\* C21: a drop or a content edit that saves through saveCleanContent or
\* updateContentFromDOM leaves the container as the handler's own change made
\* it: every tagged element the handler did not move or rewrite keeps its
\* outline, offset, shadow and resize handles, the edited element keeps its
\* outline and shadow, and the saved markup lists its tagged elements in the
\* container's order (the listener refresh of a reorder may tag more).
C21_SaveLeavesContainer ==
  [][ (gestures' = gestures + 1 /\ last'.saves = 1 /\ last'.op \in {"drop", "content"})
        => /\ SameOrder(IdSeq(content'), IdSeq(dom'))
           /\ \A p \in {TaggedPaths(dom)[i] : i \in 1..Len(TaggedPaths(dom))} :
                LET n == GetAt(dom, p)
                    q == QueryById(dom', n.id)
                    first == QueryById(dom, n.id) = p
                IN (q # Null /\ first)
                   => IF last'.op = "drop" /\ last'.branch = "moved" /\ n.id = native.data.id
                      THEN TRUE
                      ELSE IF last'.op = "content" /\ n.id = selection.selectedElementId
                      THEN GetAt(dom', q).outline = n.outline /\ GetAt(dom', q).shadow = n.shadow
                      ELSE SelectionLook(GetAt(dom', q)) = SelectionLook(n)
    ]_vars

\* a drop has saved while another element stays selected: the container shows
\* the selection, the saved content does not
C21_SavedBesideSelection ==
  /\ last.op = "drop" /\ last.saves = 1
  /\ \E i \in 1..Len(Flat(dom)) : Flat(dom)[i].outline = "solid"
  /\ \A i \in 1..Len(Flat(content)) : Flat(content)[i].outline # "solid"

\* the drop's payload names a reorder target or an element type that does not exist
TargetNotFound(nodes, data) ==
  \/ data.fmt = "existing" /\ data.id # NoId /\ QueryById(nodes, data.id) = Null
  \/ /\ data.fmt \notin {"existing", "empty"} /\ ~IsImageDrop(data)
     /\ LibraryTemplate(RawType(data)) = <<>>

C23_InvalidDragStartIsNoOp ==
  [][ LET st == [dom |-> dom, dragState |-> dragState, data |-> native.data]
      IN /\ handleExistingElementDragStart(st, TRUE, NoId) = st
         /\ handleExistingElementDragStart(st, FALSE, NoId) = st
         /\ (gestures' = gestures + 1 /\ last'.op = "dragstart"
               /\ last'.branch \in {"invalid", "payload"})
              => /\ dom' = dom /\ dragState' = dragState /\ native' = native
                 /\ last'.branch = "invalid" ]_vars

\* a dragstart without dataTransfer was dispatched on a listening element
\* while nothing was being dragged
C23_DragStartWithoutDataTransfer ==
  /\ last.op = "dragstart" /\ last.branch = "invalid"
  /\ dragState.draggedElementId = NoId
  /\ \E i \in 1..Len(Flat(dom)) : IsTagged(Flat(dom)[i]) /\ Flat(dom)[i].lst

\* C24: a drop whose payload has no existing: prefix creates an image element
\* exactly when the payload parses as JSON with type "image" and a non-empty
\* imageUrl; every other non-empty payload is looked up as a library type id
\* (an element is created exactly when the library has it); an empty payload
\* and an existing: payload create no element.
C24_ImageIffParsesAsImage ==
  [][ (native'.dropped /\ ~native.dropped)
        => LET data == native'.data
               parsed == JsonParse(data)
               isImage == parsed.ok /\ parsed.type = "image" /\ parsed.imageUrl # ""
           IN /\ data.fmt = "existing" => last'.branch \notin {"image", "library", "unknown-type"}
              /\ data.fmt = "empty" => last'.branch = "empty"
              /\ data.fmt \notin {"existing", "empty"}
                   => /\ (last'.branch = "image") <=> isImage
                      /\ ~isImage
                           => last'.branch = IF LibraryTemplate(RawType(data)) # <<>>
                                             THEN "library" ELSE "unknown-type" ]_vars

\* C25: a successful drop (library element, image, reorder) mutates the
\* container and calls onContentUpdate once; a reorder refreshes the listeners
\* before it returns and leaves a 50 ms timer that selects the moved id, a
\* creation leaves a 50 ms timer that refreshes and then selects the new id.
\* No such timer is lost, whatever runs in between, and when it fires the
\* element it selects already has its listeners.
IsSelectTimer(t) == t.kind \in {"select", "refresh-select"}
C26_SelectionAgreesWithStyling ==
  IF selection.selectedElementId = NoId
  THEN StyledPaths(dom) = {}
  ELSE /\ QueryById(dom, selection.selectedElementId) # Null
       /\ StyledPaths(dom) = {QueryById(dom, selection.selectedElementId)}

C28_ResizeIsPersisted ==
  [][ (Len(rz.sessions) = 1 /\ rz'.emitted = rz.emitted + 1)
        => /\ last'.saves = 1
           /\ rz'.saved = Append(rz.saved, <<rz.w, rz.h>>)
           /\ content' = Serialize(dom)
           /\ flag' ]_vars

\* C29: at most one resize session is active; the mouseup after a mousedown
\* on a handle removes the document's listeners, restores text selection and
\* emits exactly one imageResized; a mousemove without a session changes no
\* dimension.
C29_OneSessionAtATime ==
  [][ /\ Len(rz'.sessions) <= 1
      /\ (rz'.pressed # rz.pressed /\ rz'.downs = rz.downs /\ rz.sessions # <<>>)
           => /\ rz'.sessions = <<>> /\ rz'.userSelect = ""
              /\ rz'.emitted = rz.emitted + 1
      /\ (rz'.pressed = rz.pressed /\ rz'.downs = rz.downs /\ rz.sessions = <<>>)
           => rz'.w = rz.w /\ rz'.h = rz.h /\ rz'.figw = rz.figw ]_vars

\* C30: after a mousemove during a resize session the image's width is the
\* larger of 50 and the start width plus (se, ne) or minus (sw, nw) the
\* horizontal cursor delta, its height the larger of 50 and the start height
\* plus (se, sw) or minus (ne, nw) the vertical delta; neither is below 50.
C30_SizeIsClampedDelta ==
  [][ (rz'.pressed = rz.pressed /\ rz'.downs = rz.downs /\ rz.sessions # <<>>
         /\ last'.op = "mousemove")
        => LET s == rz.sessions[Len(rz.sessions)]
               wide == s.startW + (IF s.handle \in {"se", "ne"} THEN 1 ELSE -1) * (rz'.x - s.startX)
               high == s.startH + (IF s.handle \in {"se", "sw"} THEN 1 ELSE -1) * (rz'.y - s.startY)
           IN /\ rz'.w = (IF wide >= 50 THEN wide ELSE 50)
              /\ rz'.h = (IF high >= 50 THEN high ELSE 50)
              /\ rz'.w >= 50 /\ rz'.h >= 50 ]_vars

\* a mousemove of a session has asked for a width below 50 and for a height
\* above it
C30_ClampedWidth ==
  /\ last.op = "mousemove" /\ rz.sessions # <<>>
  /\ LET s == rz.sessions[Len(rz.sessions)]
     IN /\ s.startW + (IF s.handle \in {"se", "ne"} THEN 1 ELSE -1) * (rz.x - s.startX) < 50
        /\ s.startH + (IF s.handle \in {"se", "sw"} THEN 1 ELSE -1) * (rz.y - s.startY) > 50
        /\ rz.w = 50 /\ rz.h > 50

\* whether some tagged element that is no block-level unit lies inside a
\* tagged element (inside: the nodes have a tagged ancestor)
RECURSIVE InlineTaggedInside(_, _)
InlineTaggedInside(nodes, inside) ==
  \E i \in 1..Len(nodes) :
     \/ inside /\ IsTagged(nodes[i]) /\ nodes[i].tag \notin (BlockTags \cup {"img"})
     \/ InlineTaggedInside(nodes[i].kids, inside \/ IsTagged(nodes[i]))

\* C31: in the container and in every result of the normaliser, no tagged
\* element has a tagged descendant that is not a block-level unit.
C31_NoInlineTaggedInside ==
  /\ ~InlineTaggedInside(dom, FALSE)
  /\ nr # <<>> => ~InlineTaggedInside(nr[1].html, FALSE)
  /\ nr2 # <<>> => ~InlineTaggedInside(nr2[1].html, FALSE)
  /\ nr3 # <<>> => ~InlineTaggedInside(nr3[1].html, FALSE)

\* C32: a library or image drop on a container that holds a tagged element
\* leaves every existing node where it was and appends the new element after
\* them, whatever the text of the existing elements.
C32_DropKeepsExisting ==
  [][ (native'.dropped /\ ~native.dropped /\ last'.branch \in {"library", "image"}
         /\ TaggedPaths(RemoveIndicators(dom)) # <<>>)
        => /\ Len(dom') = Len(RemoveIndicators(dom)) + 1
           /\ SubSeq(dom', 1, Len(dom') - 1) = RemoveIndicators(dom) ]_vars

\* C33: a mouseenter or mouseleave changes neither the outline, the offset nor
\* the shadow of an element that carries the solid selection outline, and
\* gives no other element a solid outline.
C33_HoverKeepsSelection ==
  [][ ((last'.op = "mouseenter" /\ gestures' = gestures + 1)
         \/ (last'.op = "mouseleave" /\ dom' # dom))
        => /\ StyledPaths(dom') = StyledPaths(dom)
           /\ \A p \in StyledPaths(dom) :
                /\ GetAt(dom', p).outline = GetAt(dom, p).outline
                /\ GetAt(dom', p).offset = GetAt(dom, p).offset
                /\ GetAt(dom', p).shadow = GetAt(dom, p).shadow ]_vars

\* the pointer has entered the selected element
C33_HoveredSelected ==
  /\ last.op = "mouseenter" /\ last.branch = "selected"
  /\ selection.selectedElementId # NoId
  /\ QueryById(dom, selection.selectedElementId) \in StyledPaths(dom)

\* C34: a dragover during a drag of a library element or of an image takes
\* the copy branch and leaves the container as it is: it inserts no drop
\* indicator.
C34_NoIndicatorForNewElement ==
  [][ (native.kind \in {"library", "image"} /\ ~native.dropped /\ native' = native
         /\ last'.op = "dragover")
        => last'.branch = "copy" /\ dom' = dom ]_vars

\* the container after processExistingDOMContent, were it to run now
Scanned(nodes) ==
  processExistingDOMContent(nodes, 0, [k \in 1..NManualF(nodes) |-> 0], 0)

\* whether a proper ancestor of the node at p is tagged
TaggedAbove(nodes, p) ==
  \E k \in 1..(Len(p) - 1) : IsTagged(GetAt(nodes, SubSeq(p, 1, k)))

C36_TaggedElementsListen ==
  (timers = <<>> /\ ~effectPending)
    => \A i \in 1..Len(Flat(dom)) : IsTagged(Flat(dom)[i]) => Flat(dom)[i].lst

\* all timers have fired after a drop that created an element, and the
\* container holds that element
C36_SettledAfterDrop ==
  /\ timers = <<>> /\ ~effectPending
  /\ last.op = "timer"
  /\ \E i \in 1..Len(Flat(dom)) :
       IsTagged(Flat(dom)[i]) /\ Flat(dom)[i].id[1] = "element" /\ Flat(dom)[i].lst

\* the sequence s without its k-th to (k + n - 1)-th members
WithoutSegment(s, k, n) == SubSeq(s, 1, k - 1) \o SubSeq(s, k + n, Len(s))

\* the tagged ids of the persisted content string c
ContentTaggedIds(c) == TaggedIds(Parse(c))

\* C37: the panel's delete of a selected id that is in the container removes
\* one element with its subtree (the tagged ids lose one contiguous run that
\* starts with the id, the others keep their order), persists once with content
\* that no longer holds the id, and leaves nothing selected; for an id that is
\* not in the container the container's elements and the content are kept and
\* nothing is persisted.
C37_DeleteRemovesExactlyThat ==
  [][ (last'.op = "delete" /\ gestures' = gestures + 1)
        => LET id == selection.selectedElementId
               el == QueryById(dom, id)
           IN /\ selection' = NoSelection
              /\ el = Null
                   => /\ Len(Flat(dom')) = Len(Flat(dom))
                      /\ TaggedIds(dom') = TaggedIds(dom)
                      /\ content' = content /\ last'.saves = 0
              /\ el # Null
                   => LET sub == <<GetAt(dom, el)>>
                      IN /\ Len(Flat(dom')) = Len(Flat(dom)) - Len(Flat(sub))
                         /\ \E k \in 1..Len(TaggedIds(dom)) :
                              /\ TaggedIds(dom)[k] = id
                              /\ TaggedIds(dom')
                                   = WithoutSegment(TaggedIds(dom), k, Len(TaggedIds(sub)))
                         /\ last'.saves = 1
                         /\ \A i \in 1..Len(ContentTaggedIds(content')) :
                              ContentTaggedIds(content')[i] # id ]_vars

\* a selected element that has a tagged sibling has just been deleted
C37_DeletedOneOfSeveral ==
  /\ last.op = "delete" /\ last.branch = "saved"
  /\ selection = NoSelection
  /\ TaggedIds(dom) # <<>>

\* the panel's delete ran for a selected id that is not in the container
C37_DeletedMissing ==
  last.op = "delete" /\ last.branch = "missing"

\* C38: between handlers the stored selectedElement is null or the node that
\* is attached in the container and carries selectedElementId; it is never a
\* node that a clone-and-replace or a rebuild of the container has detached.
C38_SelectedNodeIsAttached ==
  /\ selection.selectedElement # "stale"
  /\ selection.selectedElement = "live"
       => QueryById(dom, selection.selectedElementId) # Null

\* C39: with no drag gesture in flight, no timer pending and no page effect
\* queued, the tagged ids of the persisted content are the tagged ids of the
\* container, in the same order.
C39_ContentIdsAreContainerIds ==
  (NativeIdle /\ timers = <<>> /\ ~effectPending)
    => ContentTaggedIds(content) = TaggedIds(dom)

\* C40: when the page effect's deferred write fires, every element of the
\* container whose id the persisted content holds (an element that a drop, edit
\* or delete has persisted since the effect ran included) is in the container
\* afterwards, with the text and the style it had.
C40_DeferredWriteKeepsChanges ==
  [][ (last'.op = "timer" /\ last'.branch = "materialize" /\ timers' # timers)
        => \A i \in 1..Len(Flat(dom)) :
             LET n == Flat(dom)[i]
             IN (IsTagged(n) /\ \E k \in 1..Len(ContentTaggedIds(content)) :
                                    ContentTaggedIds(content)[k] = n.id)
                  => \E j \in 1..Len(Flat(dom')) :
                       /\ Flat(dom')[j].id = n.id
                       /\ Flat(dom')[j].txt = n.txt
                       /\ Flat(dom')[j].st = n.st ]_vars
====
